---- MODULE Spec2Model ----
(***************************************************************************)
(* A model of AbstractFactory (src/src/AbstractFactory.ts): the primary    *)
(* connection's event proxy, the lazily created subscriber connection, the *)
(* two subscription maps, the subscribe/unsubscribe handshakes and the     *)
(* quit/disconnect sequences.                                              *)
(*                                                                         *)
(* Every step of the event loop is one action.  An async function is cut   *)
(* at its awaits.  The variables last, emitted, invoked, raised and        *)
(* driverCalls describe what the most recent step did; hist records which  *)
(* calls were made, for the properties that speak about earlier calls.     *)
(*                                                                         *)
(* The driver is the environment: a connection that has reported end       *)
(* delivers no further native events and completes no handshake            *)
(* successfully; handshakes complete in any order; a termination command   *)
(* may resolve or reject.                                                  *)
(***************************************************************************)
EXTENDS Integers, Sequences, FiniteSets

\* ---------------------------------------------------------------- bounds
MaxPending == 2
MaxConns == 2
MaxLifecycleCalls == 2
MaxLog == 3

\* ------------------------------------------------------------ input sets
None == "none"
Channels == {"a", "b"}
Patterns == {"a"}
Handlers == {"h1", "h2"}
PHandlers == {"g1", "g2"}
Messages == {"m1"}
Errors == {"e1"}
Counts == {"n1"}
Nodes == {"node1"}
Addresses == {"addr1"}
BusEvents == {"end", "subscriber:end"}

\* ------------------------------------------------------ names of events
LifecycleEvents == {"connect", "ready", "error", "close", "reconnecting"}
ClusterEvents == {"+node", "-node", "node error"}
PrimaryEvents == LifecycleEvents \cup ClusterEvents \cup {"end"}
SubscriberEvents == LifecycleEvents \cup {"message", "pmessage", "end"}

VARIABLES
  connListeners,        \* native listeners on this.connection: event -> how many
  primaryEnded,         \* this.connection has reported end
  endPending,           \* primary end handlers suspended at await this.emit('end')
  busListeners,         \* event names with a listener on the client (Emittery)
  subscriberConnection, \* 0 is undefined, else the id of the connection object
  made,                 \* how many times $makeSubscriberConnection ran
  subListeners,         \* native listeners on this.subscriberConnection
  ended,                \* ids of the subscriber connections that reported end
  subEndPending,        \* subscriber end handlers suspended at their await
  subscriptions,        \* $subscriptions: channel -> handler or None
  psubscriptions,       \* $psubscriptions: pattern -> handler or None
  pending,              \* handshakes issued on the driver and not yet called back
  life,                 \* the quit()/disconnect() call in progress
  lifeDone,             \* how many quit()/disconnect() calls have finished
  last,                 \* the most recent step
  emitted,              \* this.emit calls of the most recent step
  invoked,              \* subscription handlers invoked by the most recent step
  raised,               \* what the most recent step threw to its caller
  driverCalls,          \* commands the most recent step issued on the driver
  hist                  \* history of the calls, per channel

connVars == <<connListeners, primaryEnded, endPending, busListeners>>
subVars == <<subscriberConnection, made, subListeners, ended, subEndPending>>
regVars == <<subscriptions, psubscriptions>>
lifeVars == <<life, lifeDone>>
outVars == <<last, emitted, invoked, raised, driverCalls>>
vars == <<connVars, subVars, regVars, pending, lifeVars, outVars, hist>>

\* ------------------------------------------------------------- helpers
Emission(name, payload) == [name |-> name, payload |-> payload]

Step(op, key, arg, ok) == [op |-> op, key |-> key, arg |-> arg, ok |-> ok]

\* n copies of x: what n attached listeners produce for one native event
Times(n, x) == [i \in 1..n |-> x]

RemoveAt(s, i) == [j \in 1..(Len(s) - 1) |-> IF j < i THEN s[j] ELSE s[j + 1]]

NoListeners(events) == [n \in events |-> 0]

EmptyMap(keys) == [k \in keys |-> None]

\* the arguments the driver passes with a native event
ArgsOf(name) ==
  CASE name = "error" -> {<<e>> : e \in Errors}
    [] name \in {"+node", "-node"} -> {<<n>> : n \in Nodes}
    [] name = "node error" -> {<<e, a>> : e \in Errors, a \in Addresses}
    [] OTHER -> {<<>>}

Silent == /\ emitted' = <<>>
          /\ invoked' = <<>>
          /\ raised' = None
          /\ driverCalls' = <<>>

\* ------------------------------------------------------------- history
\* What the properties about earlier calls need to know, per channel c:
\* hist.first[c]   the earliest subscribe(c, ..) that did not throw since the last
\*                 unsubscribe(c) or clearing of the maps and whose handshake has
\*                 not failed: "none", "pending" (handshake outstanding) or "ok"
\* hist.firstH[c]  the handler of that call
\* hist.tags[i]    pending[i] is the handshake of that call
\* hist.again[c]   subscribe(c, ..) was called again while first[c] was not "none"
\* hist.dup[c]     and such a call did not throw
\* hist.unsub[c]   unsubscribe(c) has returned and subscribe(c, ..) was not called since
\* hist.ok[c]      the handlers whose subscribe(c, ..) handshake succeeded since the
\*                 last unsubscribe(c) or clearing of the maps
\* hist.pok[p]     the handlers whose psubscribe(p, ..) handshake succeeded since the
\*                 last punsubscribe(p) or clearing of the maps
\* hist.sent       the message events delivered for a channel that had a handler, each
\*                 with the handler the map held at the delivery
\* hist.got        the invocations the message events caused, in the order made
\* hist.conc       since the last unsubscribe, clearing or failure, the handshake of
\*                 a first call succeeded while that of another channel was pending
HistInit ==
  [first |-> [c \in Channels |-> "none"],
   firstH |-> [c \in Channels |-> None],
   tags |-> <<>>,
   again |-> [c \in Channels |-> FALSE],
   dup |-> [c \in Channels |-> FALSE],
   unsub |-> [c \in Channels |-> FALSE],
   ok |-> [c \in Channels |-> {}],
   pok |-> [p \in Patterns |-> {}],
   sent |-> <<>>,
   got |-> <<>>,
   conc |-> FALSE]

HistSubscribe(c, h) ==
  hist' = IF hist.first[c] = "none"
          THEN IF raised' # None
               THEN [hist EXCEPT !.unsub[c] = FALSE]
               ELSE [hist EXCEPT !.first[c] = "pending", !.firstH[c] = h,
                                 !.tags = Append(@, TRUE), !.unsub[c] = FALSE]
          ELSE IF raised' # None
               THEN [hist EXCEPT !.again[c] = TRUE, !.unsub[c] = FALSE]
               ELSE [hist EXCEPT !.again[c] = TRUE, !.dup[c] = TRUE,
                                 !.tags = Append(@, FALSE), !.unsub[c] = FALSE]

HistPsubscribe ==
  hist' = IF raised' # None THEN hist ELSE [hist EXCEPT !.tags = Append(@, FALSE)]

HistSubscribeHandshake(i, error) ==
  LET c == pending[i].key
      h == pending[i].handler
      rest == [hist EXCEPT !.tags = RemoveAt(@, i)]
  IN hist' = IF error = None
             THEN [rest EXCEPT !.ok[c] = @ \cup {h},
                               !.first[c] = IF hist.tags[i] THEN "ok" ELSE @,
                               !.conc = @ \/ (hist.tags[i] /\ \E b \in Channels \ {c} :
                                                               hist.first[b] = "pending")]
             ELSE IF hist.tags[i]
                  THEN [rest EXCEPT !.first[c] = "none", !.firstH[c] = None,
                                    !.again[c] = FALSE, !.dup[c] = FALSE,
                                    !.conc = FALSE]
                  ELSE rest

HistPsubscribeHandshake(i) == hist' = [hist EXCEPT !.tags = RemoveAt(@, i)]

\* the same with the successes recorded in hist.pok
HistPatternHandshake(i, error) ==
  hist' = IF error = None
          THEN [hist EXCEPT !.tags = RemoveAt(@, i),
                            !.pok[pending[i].key] = @ \cup {pending[i].handler}]
          ELSE [hist EXCEPT !.tags = RemoveAt(@, i)]

HistPunsubscribe(p) == hist' = [hist EXCEPT !.pok[p] = {}]

Untag(tags, keys) ==
  [i \in 1..Len(tags) |->
     tags[i] /\ ~(pending[i].kind = "subscribe" /\ pending[i].key \in keys)]

HistUnsubscribe(c) ==
  hist' = [hist EXCEPT !.first[c] = "none", !.firstH[c] = None,
                       !.again[c] = FALSE, !.dup[c] = FALSE, !.ok[c] = {},
                       !.unsub[c] = (raised' = None), !.tags = Untag(@, {c}),
                       !.conc = FALSE]

HistClear ==
  hist' = [hist EXCEPT !.first = [c \in Channels |-> "none"],
                       !.firstH = [c \in Channels |-> None],
                       !.again = [c \in Channels |-> FALSE],
                       !.dup = [c \in Channels |-> FALSE],
                       !.ok = [c \in Channels |-> {}],
                       !.pok = [p \in Patterns |-> {}],
                       !.tags = Untag(@, Channels),
                       !.conc = FALSE]

Delivery(c, h, m) == [channel |-> c, handler |-> h, message |-> m]

\* a message event for c: logged as sent if c has a handler, and every invocation
\* the listener made is logged as got
HistDeliver(c, m) ==
  /\ Len(hist.sent) < MaxLog
  /\ hist' = [hist EXCEPT
       !.sent = IF subscriptions[c] # None
                THEN Append(@, Delivery(c, subscriptions[c], m))
                ELSE @,
       !.got = @ \o [i \in 1..Len(invoked') |->
                       Delivery(c, invoked'[i].handler, invoked'[i].args[1])]]

\* ------------------------------------------------- $proxyConnectionEvents
\* the emission the proxy makes for a native event of the primary connection
ProxyEmission(name, args) ==
  CASE name = "+node" -> Emission("node:added", args)
    [] name = "-node" -> Emission("node:removed", args)
    [] name = "node error" -> Emission("node:error", args)
    [] OTHER -> Emission(name, args)

\* one listener per proxied event and one for end
ProxyConnectionEvents(l) == [n \in PrimaryEvents |-> l[n] + 1]

Init ==
  /\ connListeners = ProxyConnectionEvents(NoListeners(PrimaryEvents))
  /\ primaryEnded = FALSE
  /\ endPending = 0
  /\ busListeners = {}
  /\ subscriberConnection = 0
  /\ made = 0
  /\ subListeners = NoListeners(SubscriberEvents)
  /\ ended = {}
  /\ subEndPending = 0
  /\ subscriptions = EmptyMap(Channels)
  /\ psubscriptions = EmptyMap(Patterns)
  /\ pending = <<>>
  /\ life = [op |-> None, pc |-> "idle"]
  /\ lifeDone = 0
  /\ last = Step("init", None, <<>>, TRUE)
  /\ emitted = <<>>
  /\ invoked = <<>>
  /\ raised = None
  /\ driverCalls = <<>>
  /\ hist = HistInit

\* the caller registers a listener on the client
On(name) ==
  /\ name \notin busListeners
  /\ busListeners' = busListeners \cup {name}
  /\ last' = Step("on", name, <<>>, TRUE)
  /\ Silent
  /\ UNCHANGED <<connListeners, primaryEnded, endPending, subVars, regVars,
                 pending, lifeVars>>

\* a native connect, ready, error, close, reconnecting or cluster event
PrimaryEvent(name, args) ==
  /\ ~primaryEnded
  /\ last' = Step("primary:" \o name, None, args, TRUE)
  /\ emitted' = Times(connListeners[name], ProxyEmission(name, args))
  /\ invoked' = <<>>
  /\ raised' = None
  /\ driverCalls' = <<>>
  /\ UNCHANGED <<connVars, subVars, regVars, pending, lifeVars>>

\* the native end event of the primary connection, up to await this.emit('end')
PrimaryEnd ==
  /\ ~primaryEnded
  /\ primaryEnded' = TRUE
  /\ last' = Step("primary:end", None, <<>>, TRUE)
  /\ IF connListeners["end"] > 0
     THEN /\ connListeners' = NoListeners(PrimaryEvents)
          /\ emitted' = Times(connListeners["end"], Emission("end", <<>>))
          /\ endPending' = endPending + connListeners["end"]
     ELSE /\ emitted' = <<>>
          /\ UNCHANGED <<connListeners, endPending>>
  /\ invoked' = <<>>
  /\ raised' = None
  /\ driverCalls' = <<>>
  /\ UNCHANGED <<busListeners, subVars, regVars, pending, lifeVars>>

\* the end listeners have settled, ok or not: the error is swallowed
PrimaryEndSettle(ok) ==
  /\ endPending > 0
  /\ endPending' = endPending - 1
  /\ busListeners' = {}
  /\ last' = Step("primary:end settled", None, <<>>, ok)
  /\ Silent
  /\ UNCHANGED <<connListeners, primaryEnded, subVars, regVars, pending,
                 lifeVars>>

\* ---------------------------------------------- $setupSubscriberConnection
\* the guard forgotten: every call sets a connection up
NeedsSetup_Always == TRUE

\* if (this.subscriberConnection) return
NeedsSetup == subscriberConnection = 0

\* the message, pmessage, five lifecycle and end listeners, one of each
AttachSubscriberListeners(l) == [n \in SubscriberEvents |-> l[n] + 1]

\* the subclass's factory: a new connection object becomes subscriberConnection
MakeSubscriberConnection ==
  /\ made' = made + 1
  /\ subscriberConnection' = made + 1

SetupSubscriberConnection ==
  IF NeedsSetup
  THEN /\ MakeSubscriberConnection
       /\ subListeners' = AttachSubscriberListeners(NoListeners(SubscriberEvents))
  ELSE UNCHANGED <<made, subscriberConnection, subListeners>>

\* the subscriber connection is one that can still deliver events
SubscriberLive == subscriberConnection # 0 /\ subscriberConnection \notin ended

\* the channel ignored: some registered handler gets every message
DispatchMessage_IgnoresChannel(channel, message) ==
  LET reg == {c \in DOMAIN subscriptions : subscriptions[c] # None}
  IN IF reg # {}
     THEN <<[handler |-> subscriptions[CHOOSE c \in reg : TRUE], args |-> <<message>>]>>
     ELSE <<>>

\* the listener attached twice: the handler gets every message two times
DispatchMessage_Twice(channel, message) ==
  IF subscriptions[channel] # None
  THEN <<[handler |-> subscriptions[channel], args |-> <<message>>],
         [handler |-> subscriptions[channel], args |-> <<message>>]>>
  ELSE <<>>

\* the message listener: the handler of the channel, if any, gets the message
DispatchMessage(channel, message) ==
  IF subscriptions[channel] # None
  THEN <<[handler |-> subscriptions[channel], args |-> <<message>>]>>
  ELSE <<>>

\* one map for both: the pmessage listener looks the pattern up among the channels
DispatchPatternMessage_InChannels(pattern, channel, message) ==
  IF pattern \in DOMAIN subscriptions /\ subscriptions[pattern] # None
  THEN <<[handler |-> subscriptions[pattern], args |-> <<channel, message>>]>>
  ELSE <<>>

\* the pmessage listener: looked up by pattern, called with (channel, message)
DispatchPatternMessage(pattern, channel, message) ==
  IF psubscriptions[pattern] # None
  THEN <<[handler |-> psubscriptions[pattern], args |-> <<channel, message>>]>>
  ELSE <<>>

RECURSIVE Repeat(_, _)
Repeat(n, s) == IF n = 0 THEN <<>> ELSE s \o Repeat(n - 1, s)

\* a native message event of the subscriber connection
Message(channel, message) ==
  /\ SubscriberLive
  /\ last' = Step("message", channel, <<message>>, TRUE)
  /\ invoked' = Repeat(subListeners["message"], DispatchMessage(channel, message))
  /\ emitted' = <<>>
  /\ raised' = None
  /\ driverCalls' = <<>>
  /\ UNCHANGED <<connVars, subVars, regVars, pending, lifeVars>>

\* a native pmessage event of the subscriber connection
Pmessage(pattern, channel, message) ==
  /\ SubscriberLive
  /\ last' = Step("pmessage", pattern, <<channel, message>>, TRUE)
  /\ invoked' = Repeat(subListeners["pmessage"],
                       DispatchPatternMessage(pattern, channel, message))
  /\ emitted' = <<>>
  /\ raised' = None
  /\ driverCalls' = <<>>
  /\ UNCHANGED <<connVars, subVars, regVars, pending, lifeVars>>

\* a native connect, ready, error, close or reconnecting event of the subscriber
SubscriberEvent(name, args) ==
  /\ SubscriberLive
  /\ last' = Step("subscriber:" \o name, None, args, TRUE)
  /\ emitted' = Times(subListeners[name], Emission("subscriber:" \o name, args))
  /\ invoked' = <<>>
  /\ raised' = None
  /\ driverCalls' = <<>>
  /\ UNCHANGED <<connVars, subVars, regVars, pending, lifeVars>>

\* the listeners the subscriber end handler removes: those of this.connection
SubscriberEndRemoves == NoListeners(PrimaryEvents)

\* the native end event of the subscriber connection, up to its await
SubscriberEnd ==
  /\ SubscriberLive
  /\ ended' = ended \cup {subscriberConnection}
  /\ last' = Step("subscriber:end", None, <<>>, TRUE)
  /\ IF subListeners["end"] > 0
     THEN /\ connListeners' = SubscriberEndRemoves
          /\ emitted' = Times(subListeners["end"], Emission("subscriber:end", <<>>))
          /\ subEndPending' = subEndPending + subListeners["end"]
     ELSE /\ emitted' = <<>>
          /\ UNCHANGED <<connListeners, subEndPending>>
  /\ invoked' = <<>>
  /\ raised' = None
  /\ driverCalls' = <<>>
  /\ UNCHANGED <<primaryEnded, endPending, busListeners, subscriberConnection,
                 made, subListeners, regVars, pending, lifeVars>>

\* the maps left as they are
Clear_Nothing(map) == map

\* Map.clear
Clear(map) == EmptyMap(DOMAIN map)

\* the continuation clearing the client's listeners too, as the primary's does
SubscriberEndSettle_ClearsListeners(ok) ==
  /\ subEndPending > 0
  /\ subEndPending' = subEndPending - 1
  /\ subscriptions' = Clear(subscriptions)
  /\ psubscriptions' = Clear(psubscriptions)
  /\ busListeners' = {}
  /\ last' = Step("subscriber:end settled", None, <<>>, ok)
  /\ Silent
  /\ UNCHANGED <<connListeners, primaryEnded, endPending, subscriberConnection,
                 made, subListeners, ended, pending, lifeVars>>

\* the subscriber:end listeners have settled, ok or not; then both maps are cleared
SubscriberEndSettle(ok) ==
  /\ subEndPending > 0
  /\ subEndPending' = subEndPending - 1
  /\ subscriptions' = Clear(subscriptions)
  /\ psubscriptions' = Clear(psubscriptions)
  /\ last' = Step("subscriber:end settled", None, <<>>, ok)
  /\ Silent
  /\ UNCHANGED <<connVars, subscriberConnection, made, subListeners, ended,
                 pending, lifeVars>>

\* ------------------------------------------------ subscribe / unsubscribe
\* the duplicate check forgotten: no key is ever found
Has_Never(map, key) == FALSE

\* Map.has
Has(map, key) == map[key] # None

\* Map.delete
Delete(map, key) == [map EXCEPT ![key] = None]

DriverCall(conn, cmd, key) == [conn |-> conn, cmd |-> cmd, key |-> key]

Handshake(kind, key, handler, conn) ==
  [kind |-> kind, key |-> key, handler |-> handler, conn |-> conn]

\* what the callback of subscribe emits: the error, or ready with the count
HandshakeEmissions(prefix, error, count) ==
  IF error # None
  THEN <<Emission(prefix \o ":error", <<error>>)>>
  ELSE <<Emission(prefix \o ":ready", <<count>>)>>

\* the return after the error forgotten: the handler is set also on failure
HandshakeRegisters_Always(map, r, error) == [map EXCEPT ![r.key] = r.handler]

\* the map after the callback: the handler is set unless the handshake failed
HandshakeRegisters(map, r, error) ==
  IF error # None THEN map ELSE [map EXCEPT ![r.key] = r.handler]

\* subscribe(channel, handler)
Subscribe(channel, handler) ==
  /\ NeedsSetup => made < MaxConns
  /\ ~Has(subscriptions, channel) => Len(pending) < MaxPending
  /\ SetupSubscriberConnection
  /\ IF Has(subscriptions, channel)
     THEN /\ raised' = "E_MULTIPLE_REDIS_SUBSCRIPTIONS"
          /\ driverCalls' = <<>>
          /\ UNCHANGED pending
     ELSE /\ raised' = None
          /\ driverCalls' = <<DriverCall(subscriberConnection', "subscribe", channel)>>
          /\ pending' = Append(pending,
                 Handshake("subscribe", channel, handler, subscriberConnection'))
  /\ last' = Step("subscribe", channel, <<handler>>, TRUE)
  /\ emitted' = <<>>
  /\ invoked' = <<>>
  /\ UNCHANGED <<connVars, ended, subEndPending, regVars, lifeVars>>

\* the driver calls back the function given to subscribe
SubscribeHandshake(i, error, count) ==
  /\ i \in 1..Len(pending)
  /\ pending[i].kind = "subscribe"
  /\ error = None => pending[i].conn \notin ended
  /\ emitted' = HandshakeEmissions("subscription", error, count)
  /\ subscriptions' = HandshakeRegisters(subscriptions, pending[i], error)
  /\ pending' = RemoveAt(pending, i)
  /\ last' = Step("subscribe handshake", pending[i].key,
                  <<pending[i].handler, error, count>>, error = None)
  /\ invoked' = <<>>
  /\ raised' = None
  /\ driverCalls' = <<>>
  /\ UNCHANGED <<connVars, subVars, psubscriptions, lifeVars>>

\* unsubscribe(channel)
Unsubscribe(channel) ==
  /\ subscriptions' = Delete(subscriptions, channel)
  /\ IF subscriberConnection = 0
     THEN /\ raised' = "TypeError"
          /\ driverCalls' = <<>>
     ELSE /\ raised' = None
          /\ driverCalls' = <<DriverCall(subscriberConnection, "unsubscribe", channel)>>
  /\ last' = Step("unsubscribe", channel, <<>>, TRUE)
  /\ emitted' = <<>>
  /\ invoked' = <<>>
  /\ UNCHANGED <<connVars, subVars, psubscriptions, pending, lifeVars>>

\* psubscribe(pattern, handler)
Psubscribe(pattern, handler) ==
  /\ NeedsSetup => made < MaxConns
  /\ ~Has(psubscriptions, pattern) => Len(pending) < MaxPending
  /\ SetupSubscriberConnection
  /\ IF Has(psubscriptions, pattern)
     THEN /\ raised' = "E_MULTIPLE_REDIS_PSUBSCRIPTIONS"
          /\ driverCalls' = <<>>
          /\ UNCHANGED pending
     ELSE /\ raised' = None
          /\ driverCalls' = <<DriverCall(subscriberConnection', "psubscribe", pattern)>>
          /\ pending' = Append(pending,
                 Handshake("psubscribe", pattern, handler, subscriberConnection'))
  /\ last' = Step("psubscribe", pattern, <<handler>>, TRUE)
  /\ emitted' = <<>>
  /\ invoked' = <<>>
  /\ UNCHANGED <<connVars, ended, subEndPending, regVars, lifeVars>>

\* the driver calls back the function given to psubscribe
PsubscribeHandshake(i, error, count) ==
  /\ i \in 1..Len(pending)
  /\ pending[i].kind = "psubscribe"
  /\ error = None => pending[i].conn \notin ended
  /\ emitted' = HandshakeEmissions("psubscription", error, count)
  /\ psubscriptions' = HandshakeRegisters(psubscriptions, pending[i], error)
  /\ pending' = RemoveAt(pending, i)
  /\ last' = Step("psubscribe handshake", pending[i].key,
                  <<pending[i].handler, error, count>>, error = None)
  /\ invoked' = <<>>
  /\ raised' = None
  /\ driverCalls' = <<>>
  /\ UNCHANGED <<connVars, subVars, subscriptions, lifeVars>>

\* punsubscribe(pattern)
Punsubscribe(pattern) ==
  /\ psubscriptions' = Delete(psubscriptions, pattern)
  /\ IF subscriberConnection = 0
     THEN /\ raised' = "TypeError"
          /\ driverCalls' = <<>>
     ELSE /\ raised' = None
          /\ driverCalls' = <<DriverCall(subscriberConnection, "punsubscribe", pattern)>>
  /\ last' = Step("punsubscribe", pattern, <<>>, TRUE)
  /\ emitted' = <<>>
  /\ invoked' = <<>>
  /\ UNCHANGED <<connVars, subVars, subscriptions, pending, lifeVars>>

\* ------------------------------------------------------ quit / disconnect
Primary == 0

Idle == [op |-> None, pc |-> "idle"]

\* quit() or disconnect() up to its first await: the command goes to this.connection
Terminate(op) ==
  /\ life.pc = "idle"
  /\ lifeDone < MaxLifecycleCalls
  /\ life' = [op |-> op, pc |-> "primary"]
  /\ driverCalls' = <<DriverCall(Primary, op, None)>>
  /\ last' = Step(op, None, <<>>, TRUE)
  /\ emitted' = <<>>
  /\ invoked' = <<>>
  /\ raised' = None
  /\ UNCHANGED <<connVars, subVars, regVars, pending, lifeDone>>

\* the test forgotten: the subscriber connection is terminated even when undefined
TerminatesSubscriber_Always == TRUE

\* if (this.subscriberConnection)
TerminatesSubscriber == subscriberConnection # 0

\* the primary's failure swallowed: the subscriber is terminated all the same
PrimaryTerminated_Swallows(ok) ==
  /\ life.pc = "primary"
  /\ last' = Step(life.op \o " primary settled", None, <<>>, ok)
  /\ IF TerminatesSubscriber
     THEN /\ life' = [life EXCEPT !.pc = "subscriber"]
          /\ driverCalls' = <<DriverCall(subscriberConnection, life.op, None)>>
          /\ raised' = None
          /\ UNCHANGED lifeDone
     ELSE /\ life' = Idle
          /\ lifeDone' = lifeDone + 1
          /\ driverCalls' = <<>>
          /\ raised' = IF ok THEN None ELSE "driver error"
  /\ emitted' = <<>>
  /\ invoked' = <<>>
  /\ UNCHANGED <<connVars, subVars, regVars, pending>>

\* the primary's termination settles: on success the subscriber's turn, if it exists
PrimaryTerminated(ok) ==
  /\ life.pc = "primary"
  /\ last' = Step(life.op \o " primary settled", None, <<>>, ok)
  /\ IF ok /\ TerminatesSubscriber
     THEN /\ life' = [life EXCEPT !.pc = "subscriber"]
          /\ driverCalls' = <<DriverCall(subscriberConnection, life.op, None)>>
          /\ raised' = None
          /\ UNCHANGED lifeDone
     ELSE /\ life' = Idle
          /\ lifeDone' = lifeDone + 1
          /\ driverCalls' = <<>>
          /\ raised' = IF ok THEN None ELSE "driver error"
  /\ emitted' = <<>>
  /\ invoked' = <<>>
  /\ UNCHANGED <<connVars, subVars, regVars, pending>>

\* quit() or disconnect() clearing the maps itself when the subscriber has settled
SubscriberTerminated_ClearsMaps(ok) ==
  /\ life.pc = "subscriber"
  /\ last' = Step(life.op \o " subscriber settled", None, <<>>, ok)
  /\ life' = Idle
  /\ lifeDone' = lifeDone + 1
  /\ raised' = IF ok THEN None ELSE "driver error"
  /\ driverCalls' = <<>>
  /\ emitted' = <<>>
  /\ invoked' = <<>>
  /\ subscriptions' = Clear(subscriptions)
  /\ psubscriptions' = Clear(psubscriptions)
  /\ UNCHANGED <<connVars, subVars, pending>>

\* the subscriber's termination settles and the call returns
SubscriberTerminated(ok) ==
  /\ life.pc = "subscriber"
  /\ last' = Step(life.op \o " subscriber settled", None, <<>>, ok)
  /\ life' = Idle
  /\ lifeDone' = lifeDone + 1
  /\ raised' = IF ok THEN None ELSE "driver error"
  /\ driverCalls' = <<>>
  /\ emitted' = <<>>
  /\ invoked' = <<>>
  /\ UNCHANGED <<connVars, subVars, regVars, pending>>

\* ------------------------------------------------------- specifications
\* Spec is the whole client: every handler and every call, with one channel, one
\* channel handler and one pattern, and without the history of the calls.
OneChannel == {"a"}
OneHandler == {"h1"}
OnePHandler == {"g1"}

Next ==
  \/ \E name \in BusEvents : On(name) /\ UNCHANGED hist
  \/ \E name \in LifecycleEvents \cup ClusterEvents :
       \E args \in ArgsOf(name) : PrimaryEvent(name, args) /\ UNCHANGED hist
  \/ PrimaryEnd /\ UNCHANGED hist
  \/ \E ok \in BOOLEAN : PrimaryEndSettle(ok) /\ UNCHANGED hist
  \/ \E c \in OneChannel, m \in Messages : Message(c, m) /\ UNCHANGED hist
  \/ \E p \in Patterns, c \in OneChannel, m \in Messages :
       Pmessage(p, c, m) /\ UNCHANGED hist
  \/ \E name \in LifecycleEvents :
       \E args \in ArgsOf(name) : SubscriberEvent(name, args) /\ UNCHANGED hist
  \/ SubscriberEnd /\ UNCHANGED hist
  \/ \E ok \in BOOLEAN : SubscriberEndSettle(ok) /\ UNCHANGED hist
  \/ \E c \in OneChannel, h \in OneHandler : Subscribe(c, h) /\ UNCHANGED hist
  \/ \E i \in 1..MaxPending, e \in Errors \cup {None}, n \in Counts :
       SubscribeHandshake(i, e, n) /\ UNCHANGED hist
  \/ \E c \in OneChannel : Unsubscribe(c) /\ UNCHANGED hist
  \/ \E p \in Patterns, h \in OnePHandler : Psubscribe(p, h) /\ UNCHANGED hist
  \/ \E i \in 1..MaxPending, e \in Errors \cup {None}, n \in Counts :
       PsubscribeHandshake(i, e, n) /\ UNCHANGED hist
  \/ \E p \in Patterns : Punsubscribe(p) /\ UNCHANGED hist
  \/ \E op \in {"quit", "disconnect"} : Terminate(op) /\ UNCHANGED hist
  \/ \E ok \in BOOLEAN : PrimaryTerminated(ok) /\ UNCHANGED hist
  \/ \E ok \in BOOLEAN : SubscriberTerminated(ok) /\ UNCHANGED hist

Spec == Init /\ [][Next]_vars

\* SpecPubSub is the subscriber side: the calls, handshakes, messages and the end of
\* the subscriber connection, with two channels and two handlers and with the
\* history.  Its actions read none of busListeners, primaryEnded, endPending, life
\* and lifeDone, which the actions it leaves out are the only ones to change.
NextPubSub ==
  \/ \E c \in Channels, m \in Messages : Message(c, m) /\ UNCHANGED hist
  \/ \E p \in Patterns, c \in Channels, m \in Messages :
       Pmessage(p, c, m) /\ UNCHANGED hist
  \/ SubscriberEnd /\ UNCHANGED hist
  \/ \E ok \in BOOLEAN : SubscriberEndSettle(ok) /\ HistClear
  \/ \E c \in Channels, h \in Handlers : Subscribe(c, h) /\ HistSubscribe(c, h)
  \/ \E i \in 1..MaxPending, e \in Errors \cup {None}, n \in Counts :
       SubscribeHandshake(i, e, n) /\ HistSubscribeHandshake(i, e)
  \/ \E c \in Channels : Unsubscribe(c) /\ HistUnsubscribe(c)
  \/ \E p \in Patterns, h \in OnePHandler : Psubscribe(p, h) /\ HistPsubscribe
  \/ \E i \in 1..MaxPending, e \in Errors \cup {None}, n \in Counts :
       PsubscribeHandshake(i, e, n) /\ HistPsubscribeHandshake(i)
  \/ \E p \in Patterns : Punsubscribe(p) /\ UNCHANGED hist

SpecPubSub == Init /\ [][NextPubSub]_vars

\* SpecChannels is SpecPubSub without the pattern side, which shares nothing with
\* the channel side but the subscriber connection and the list of handshakes.
NextChannels ==
  \/ \E c \in Channels, m \in Messages : Message(c, m) /\ UNCHANGED hist
  \/ SubscriberEnd /\ UNCHANGED hist
  \/ \E ok \in BOOLEAN : SubscriberEndSettle(ok) /\ HistClear
  \/ \E c \in Channels, h \in Handlers : Subscribe(c, h) /\ HistSubscribe(c, h)
  \/ \E i \in 1..MaxPending, e \in Errors \cup {None}, n \in Counts :
       SubscribeHandshake(i, e, n) /\ HistSubscribeHandshake(i, e)
  \/ \E c \in Channels : Unsubscribe(c) /\ HistUnsubscribe(c)

SpecChannels == Init /\ [][NextChannels]_vars

\* SpecPatterns is the pattern side alone, with two pattern handlers and with the
\* history of the psubscribe handshakes.
NextPatterns ==
  \/ \E p \in Patterns, c \in Channels, m \in Messages :
       Pmessage(p, c, m) /\ UNCHANGED hist
  \/ SubscriberEnd /\ UNCHANGED hist
  \/ \E ok \in BOOLEAN : SubscriberEndSettle(ok) /\ HistClear
  \/ \E p \in Patterns, h \in PHandlers : Psubscribe(p, h) /\ HistPsubscribe
  \/ \E i \in 1..MaxPending, e \in Errors \cup {None}, n \in Counts :
       PsubscribeHandshake(i, e, n) /\ HistPatternHandshake(i, e)
  \/ \E p \in Patterns : Punsubscribe(p) /\ HistPunsubscribe(p)

SpecPatterns == Init /\ [][NextPatterns]_vars

\* SpecOrder is the channel side with one channel and two messages, and with the
\* log of the deliveries and of the invocations.
TwoMessages == {"m1", "m2"}

NextOrder ==
  \/ \E c \in OneChannel, m \in TwoMessages : Message(c, m) /\ HistDeliver(c, m)
  \/ SubscriberEnd /\ UNCHANGED hist
  \/ \E ok \in BOOLEAN : SubscriberEndSettle(ok) /\ UNCHANGED hist
  \/ \E c \in OneChannel, h \in Handlers : Subscribe(c, h) /\ UNCHANGED hist
  \/ \E i \in 1..MaxPending, e \in Errors \cup {None}, n \in Counts :
       SubscribeHandshake(i, e, n) /\ UNCHANGED hist
  \/ \E c \in OneChannel : Unsubscribe(c) /\ UNCHANGED hist

SpecOrder == Init /\ [][NextOrder]_vars

\* ------------------------------------------------------------- properties

\* C1: if subscribe(c, h1) was called and its handshake does not fail, a later
\* subscribe(c, h2) with no unsubscribe(c) in between throws the duplicate
\* subscription error, and h1 stays the handler of c.
C1_SecondSubscribeRaises ==
  \A c \in Channels :
    hist.first[c] = "ok" /\ hist.again[c] =>
      ~hist.dup[c] /\ subscriptions[c] = hist.firstH[c]

\* C2: after unsubscribe(c) has returned and until subscribe(c, ..) is called again,
\* a message event for c invokes no handler.
C2_NoHandlerAfterUnsubscribe ==
  last.op = "message" /\ hist.unsub[last.key] => invoked = <<>>

\* C3: from the success of the handshake of subscribe(c, h) until unsubscribe(c) or
\* the clearing of the maps, a message event (c, m) invokes h once with m and no
\* other handler.
C3_MessageInvokesTheHandlerOnce ==
  last.op = "message" =>
    \A h \in hist.ok[last.key] :
      invoked = <<[handler |-> h, args |-> last.arg]>>

\* C4: after the subscriber connection has reported end, a subscribe call makes a
\* new subscriber connection and issues the subscribe on it, not on the ended one.
C4_SubscribeAfterEndReconnects ==
  last.op = "subscribe" =>
    /\ subscriberConnection \notin ended
    /\ \A i \in DOMAIN driverCalls : driverCalls[i].conn \notin ended

\* C5: the end event of the subscriber connection emits subscriber:end and leaves
\* both maps as they are; when the listeners of that emission have settled, with or
\* without a failure, both maps are empty.
C5_ClearedAfterSubscriberEndSettled ==
  [][/\ ended' # ended =>
          /\ emitted' = <<Emission("subscriber:end", <<>>)>>
          /\ subEndPending' = subEndPending + 1
          /\ subscriptions' = subscriptions
          /\ psubscriptions' = psubscriptions
     /\ subEndPending' < subEndPending =>
          /\ \A c \in DOMAIN subscriptions' : subscriptions'[c] = None
          /\ \A q \in DOMAIN psubscriptions' : psubscriptions'[q] = None]_vars

\* a subscriber:end listener was registered and failed, and the maps are empty
C5_Witness ==
  /\ last.op = "subscriber:end settled"
  /\ ~last.ok
  /\ "subscriber:end" \in busListeners
  /\ subEndPending = 0
  /\ \A c \in Channels : subscriptions[c] = None
  /\ \A q \in Patterns : psubscriptions[q] = None

\* C6: a connection that has reported end, primary or subscriber, has no native
\* listeners left once its end handler has started.
C6_NoNativeListenersAfterEnd ==
  /\ primaryEnded => \A n \in PrimaryEvents : connListeners[n] = 0
  /\ subscriberConnection \in ended => \A n \in SubscriberEvents : subListeners[n] = 0

\* C7: while the primary connection has not reported end, each of its native
\* connect, ready, error, close and reconnecting events makes exactly one emission
\* of the same name, error with the driver's error.
C7_PrimaryEventsProxiedOnce ==
  \A name \in LifecycleEvents :
    last.op = "primary:" \o name => emitted = <<Emission(name, last.arg)>>

\* C8: the factory runs only in a subscribe or psubscribe call made while there is
\* no subscriber connection, every such call leaves one in place, and the
\* connection in place has each of its native listeners attached once.
C8_SubscriberConnectionMadeOnce ==
  [][/\ made' # made =>
          /\ subscriberConnection = 0
          /\ made' = made + 1
          /\ last'.op \in {"subscribe", "psubscribe"}
     /\ last'.op \in {"subscribe", "psubscribe"} => subscriberConnection' # 0
     /\ subscriberConnection' # 0 =>
          \A n \in SubscriberEvents : subListeners'[n] = 1]_vars

\* a psubscribe after a subscribe: two handshakes issued, one connection made
C8_Witness ==
  /\ last.op = "psubscribe"
  /\ Len(pending) = 2
  /\ pending[1].kind = "subscribe"
  /\ made = 1
  /\ subscriberConnection = 1

\* C9: quit() and disconnect() issue their command on the primary connection first
\* and on the subscriber connection only after the primary's has completed, and
\* then exactly when there is a subscriber connection; a call, also a second one,
\* throws nothing unless the driver rejected a termination.
C9_PrimaryThenSubscriber ==
  /\ \A op \in {"quit", "disconnect"} :
       /\ last.op = op => driverCalls = <<DriverCall(Primary, op, None)>>
       /\ last.op = op \o " primary settled" /\ last.ok =>
            driverCalls = IF subscriberConnection # 0
                          THEN <<DriverCall(subscriberConnection, op, None)>>
                          ELSE <<>>
       /\ last.op \in {op \o " primary settled", op \o " subscriber settled"} =>
            (raised = None <=> last.ok)
  /\ \A i \in DOMAIN driverCalls :
       driverCalls[i].cmd \in {"quit", "disconnect"} /\ driverCalls[i].conn # Primary =>
         /\ last.op = driverCalls[i].cmd \o " primary settled"
         /\ last.ok
         /\ driverCalls[i].conn = subscriberConnection

\* the second call in a row has returned, after terminating both connections
C9_Witness ==
  /\ lifeDone = 2
  /\ last.op = "quit subscriber settled"
  /\ last.ok
  /\ raised = None
  /\ life.pc = "idle"

\* C10: when the handshake of subscribe (psubscribe) completes with an error,
\* subscription:error (psubscription:error) is emitted with that error and nothing
\* else, both maps stay as they were and nothing is thrown.
C10_FailedHandshakeRegistersNothing ==
  [][/\ last'.op = "subscribe handshake" /\ ~last'.ok =>
          /\ emitted' = <<Emission("subscription:error", <<last'.arg[2]>>)>>
          /\ last'.arg[2] \in Errors
          /\ subscriptions' = subscriptions
          /\ psubscriptions' = psubscriptions
          /\ raised' = None
     /\ last'.op = "psubscribe handshake" /\ ~last'.ok =>
          /\ emitted' = <<Emission("psubscription:error", <<last'.arg[2]>>)>>
          /\ last'.arg[2] \in Errors
          /\ subscriptions' = subscriptions
          /\ psubscriptions' = psubscriptions
          /\ raised' = None]_vars

\* the handshake of subscribe(c, h) has failed and h is not the handler of c
C10_Witness ==
  /\ last.op = "subscribe handshake"
  /\ ~last.ok
  /\ subscriptions[last.key] # last.arg[1]
  /\ emitted = <<Emission("subscription:error", <<"e1">>)>>

\* C11: on the primary connection's end event all its native listeners are removed,
\* then end is emitted, and when the listeners of that emission have settled, with
\* or without a failure, the client has no listeners left.
C11_PrimaryEndSequence ==
  /\ last.op = "primary:end" =>
       /\ \A n \in PrimaryEvents : connListeners[n] = 0
       /\ emitted = <<Emission("end", <<>>)>>
       /\ endPending = 1
  /\ last.op = "primary:end settled" => busListeners = {}

\* C12: unsubscribe(c) and punsubscribe(p) throw nothing in any state, also when
\* nothing is registered and no subscriber connection exists.
C12_UnsubscribeNeverThrows ==
  last.op \in {"unsubscribe", "punsubscribe"} => raised = None

\* C13: for two distinct channels a and b whose subscribe handshakes have both
\* succeeded, in whichever order and also when both were outstanding together, and
\* no other handshake for them has: both handlers are registered, and a message on
\* one of them invokes the handler of that channel only.
C13_ConcurrentSubscribesIndependent ==
  \A a \in Channels, b \in Channels :
    (/\ a # b
     /\ hist.first[a] = "ok" /\ hist.ok[a] = {hist.firstH[a]}
     /\ hist.first[b] = "ok" /\ hist.ok[b] = {hist.firstH[b]}) =>
      /\ subscriptions[a] = hist.firstH[a]
      /\ subscriptions[b] = hist.firstH[b]
      /\ last.op = "message" /\ last.key = a =>
           invoked = <<[handler |-> hist.firstH[a], args |-> last.arg]>>

\* both handshakes were outstanding together and succeeded, b's before a's; a
\* message on a reaches h1 alone
C13_Witness ==
  /\ hist.conc
  /\ hist.first["a"] = "ok" /\ hist.firstH["a"] = "h1"
  /\ hist.first["b"] = "ok" /\ hist.firstH["b"] = "h2"
  /\ subscriptions = [c \in Channels |-> IF c = "a" THEN "h1" ELSE "h2"]
  /\ last.op = "message" /\ last.key = "a"
  /\ invoked = <<[handler |-> "h1", args |-> <<"m1">>]>>

\* C14: from the success of the handshake of psubscribe(p, h) until punsubscribe(p)
\* or the clearing of the maps, a pmessage event (p, ch, m) invokes h once with
\* (ch, m), found by p and not by ch; a pmessage for a pattern without a handler
\* invokes nothing and throws nothing.
C14_PmessageInvokesThePatternHandlerOnce ==
  last.op = "pmessage" =>
    /\ \A h \in hist.pok[last.key] :
         invoked = <<[handler |-> h, args |-> last.arg]>>
    /\ psubscriptions[last.key] = None => invoked = <<>> /\ raised = None

\* C15: subscribe(c, h) called while c has a handler in the channel map (and
\* psubscribe(p, h) while p has one in the pattern map) raises the multiple
\* subscriptions exception, issues no subscribe (psubscribe) on the driver, emits
\* no event and leaves both maps as they were.
C15_DuplicateRaisesWithoutDriver ==
  [][/\ (last'.op = "subscribe" /\ subscriptions[last'.key] # None) =>
          /\ raised' = "E_MULTIPLE_REDIS_SUBSCRIPTIONS"
          /\ driverCalls' = <<>>
          /\ emitted' = <<>>
          /\ UNCHANGED <<subscriptions, psubscriptions, pending>>
     /\ (last'.op = "psubscribe" /\ psubscriptions[last'.key] # None) =>
          /\ raised' = "E_MULTIPLE_REDIS_PSUBSCRIPTIONS"
          /\ driverCalls' = <<>>
          /\ emitted' = <<>>
          /\ UNCHANGED <<subscriptions, psubscriptions, pending>>]_vars

C15_Witness ==
  /\ last.op = "subscribe" /\ last.key = "a"
  /\ subscriptions["a"] = "h1"
  /\ raised = "E_MULTIPLE_REDIS_SUBSCRIPTIONS"
  /\ driverCalls = <<>>

\* the steps of quit() and disconnect()
TerminationSteps ==
  {op \o suffix : op \in {"quit", "disconnect"},
                  suffix \in {"", " primary settled", " subscriber settled"}}

\* the keys that have a handler in old and none in new
Removed(old, new) == {k \in DOMAIN old : old[k] # None /\ new[k] = None}

\* C16: no step of quit() or disconnect() changes the channel map or the pattern
\* map, and the only step that removes more than one key at once is the callback
\* of the subscriber connection's end event.
C16_OnlySubscriberEndClears ==
  [][/\ last'.op \in TerminationSteps => UNCHANGED <<subscriptions, psubscriptions>>
     /\ Cardinality(Removed(subscriptions, subscriptions'))
          + Cardinality(Removed(psubscriptions, psubscriptions')) > 1 =>
            last'.op = "subscriber:end settled"]_vars

C16_Witness ==
  /\ last.op = "quit subscriber settled"
  /\ last.ok
  /\ subscriptions["a"] = "h1"
  /\ psubscriptions["a"] = "g1"

\* C17: the channel map and the pattern map are independent, also for a string
\* that is both a channel and a pattern: subscribe, its handshake and unsubscribe
\* never change the pattern map, psubscribe, its handshake and punsubscribe never
\* change the channel map, a call is rejected as duplicate only for a key of its
\* own map, a message event invokes channel handlers only and a pmessage event
\* pattern handlers only.
C17_RegistriesIndependent ==
  [][/\ last'.op \in {"subscribe", "subscribe handshake", "unsubscribe"} =>
          UNCHANGED psubscriptions
     /\ last'.op \in {"psubscribe", "psubscribe handshake", "punsubscribe"} =>
          UNCHANGED subscriptions
     /\ (last'.op = "subscribe" /\ subscriptions[last'.key] = None) => raised' = None
     /\ (last'.op = "psubscribe" /\ psubscriptions[last'.key] = None) => raised' = None
     /\ last'.op = "message" =>
          \A i \in DOMAIN invoked' : invoked'[i].handler = subscriptions[last'.key]
     /\ last'.op = "pmessage" =>
          \A i \in DOMAIN invoked' : invoked'[i].handler = psubscriptions[last'.key]]_vars

\* psubscribe("a", ..) accepted while the channel "a" has a handler
C17_Witness ==
  /\ last.op = "psubscribe" /\ last.key = "a"
  /\ raised = None
  /\ subscriptions["a"] = "h1"
  /\ psubscriptions["a"] = None

\* the messages of the log that are for channel c and handler h, in the log's order
RECURSIVE MessagesOf(_, _, _)
MessagesOf(log, c, h) ==
  IF log = <<>> THEN <<>>
  ELSE LET rest == MessagesOf(Tail(log), c, h)
       IN IF Head(log).channel = c /\ Head(log).handler = h
          THEN <<Head(log).message>> \o rest
          ELSE rest

\* C18: for every channel c and handler h, the messages with which h was invoked
\* for c are the messages of the events delivered for c while h was its handler,
\* in the same order, none dropped, duplicated or reordered.
C18_MessagesInOrder ==
  \A c \in Channels, h \in Handlers :
    MessagesOf(hist.got, c, h) = MessagesOf(hist.sent, c, h)

C18_Witness ==
  /\ last.op = "message"
  /\ MessagesOf(hist.sent, "a", "h1") = <<"m2", "m1">>
  /\ MessagesOf(hist.got, "a", "h1") = <<"m2", "m1">>
  /\ MessagesOf(hist.got, "a", "h2") = <<"m2">>

\* C19: the end of the subscriber connection removes no listener of the client's
\* emitter: neither the end handler nor its continuation after the emit shrinks
\* the listeners, and the only step that does is the continuation of the primary
\* connection's end handler.
C19_SubscriberEndKeepsListeners ==
  [][/\ last'.op \in {"subscriber:end", "subscriber:end settled"} =>
          busListeners \subseteq busListeners'
     /\ ~(busListeners \subseteq busListeners') =>
          last'.op = "primary:end settled"]_vars

C19_Witness ==
  /\ last.op = "subscriber:end settled"
  /\ subEndPending = 0
  /\ busListeners = BusEvents

\* C20: when the termination of the primary connection fails inside quit() or
\* disconnect(), the call fails with the driver's error, nothing is issued on the
\* subscriber connection, and the subscriber connection and both maps stay as
\* they were, even if a subscriber connection exists.
C20_PrimaryFailureStopsTermination ==
  [][(/\ last'.op \in {"quit primary settled", "disconnect primary settled"}
      /\ ~last'.ok) =>
        /\ raised' = "driver error"
        /\ driverCalls' = <<>>
        /\ life' = Idle
        /\ UNCHANGED <<subVars, regVars>>]_vars

C20_Witness ==
  /\ last.op = "quit primary settled"
  /\ ~last.ok
  /\ raised = "driver error"
  /\ subscriberConnection # 0
  /\ subscriberConnection \notin ended
  /\ subscriptions["a"] = "h1"
  /\ driverCalls = <<>>

====
